---- MODULE Spec2Model ----
(***************************************************************************)
(* zbxsend: a Zabbix sender client (src/zbxsend.py).                       *)
(*                                                                         *)
(* One call of send_to_zabbix is modelled step by step: the serialization  *)
(* loop over the metrics, the construction of the packet, and the socket   *)
(* operations inside the try/except/finally.  Text is a sequence of code   *)
(* points, a bytes object is a sequence of numbers in 0..255.              *)
(***************************************************************************)
EXTENDS Integers, Sequences, FiniteSets, TLC

(***************************************************************************)
(* Bounds of the model.                                                    *)
(***************************************************************************)
MaxBatch == 2

(***************************************************************************)
(* Program constants.                                                      *)
(***************************************************************************)
NsPerSec == 1000000000
HeaderLen == 13

\* b'ZBXD\1'
ZbxTag == <<90, 66, 88, 68, 1>>

\* None, for an optional int (Metric.clock, Metric.ns).  Python ints that the
\* model enumerates are never equal to it.
None == -1

(***************************************************************************)
(* Sequence helpers.                                                       *)
(***************************************************************************)
\* The concatenation of the sequences of ss (by halves, to keep the
\* evaluation shallow)
RECURSIVE Flatten(_)
Flatten(ss) ==
    IF Len(ss) = 0 THEN <<>>
    ELSE IF Len(ss) = 1 THEN ss[1]
    ELSE LET h == Len(ss) \div 2
         IN  Flatten(SubSeq(ss, 1, h)) \o Flatten(SubSeq(ss, h + 1, Len(ss)))

Take(s, n) == SubSeq(s, 1, IF n < Len(s) THEN n ELSE Len(s))
Drop(s, n) == SubSeq(s, n + 1, Len(s))

\* bytes.startswith
StartsWith(s, p) == Len(s) >= Len(p) /\ SubSeq(s, 1, Len(p)) = p

(***************************************************************************)
(* str.encode(): UTF-8.                                                    *)
(***************************************************************************)
Utf8Char(c) ==
    IF c < 128 THEN <<c>>
    ELSE IF c < 2048 THEN <<192 + (c \div 64), 128 + (c % 64)>>
    ELSE IF c < 65536 THEN
        <<224 + (c \div 4096), 128 + ((c \div 64) % 64), 128 + (c % 64)>>
    ELSE <<240 + (c \div 262144), 128 + ((c \div 4096) % 64),
           128 + ((c \div 64) % 64), 128 + (c % 64)>>

Encode(s) == Flatten([i \in 1..Len(s) |-> Utf8Char(s[i])])

(***************************************************************************)
(* struct.pack('<Q', n) and struct.unpack('<Q', b)[0].                     *)
(***************************************************************************)
RECURSIVE PackLE(_, _)
PackLE(n, k) == IF k = 0 THEN <<>> ELSE <<n % 256>> \o PackLE(n \div 256, k - 1)

PackQ(n) == PackLE(n, 8)

RECURSIVE UnpackQ(_)
UnpackQ(b) == IF b = <<>> THEN 0 ELSE Head(b) + 256 * UnpackQ(Tail(b))

(***************************************************************************)
(* str(int): decimal digits.                                               *)
(***************************************************************************)
RECURSIVE DecDigits(_)
DecDigits(n) ==
    IF n < 10 THEN <<48 + n>> ELSE DecDigits(n \div 10) \o <<48 + (n % 10)>>

IntStr(n) == IF n < 0 THEN <<45>> \o DecDigits(-n) ELSE DecDigits(n)

(***************************************************************************)
(* json.dumps(..., ensure_ascii=False, separators=(",", ":")).             *)
(***************************************************************************)
HexDigit(d) == IF d < 10 THEN 48 + d ELSE 87 + d

\* One character of a JSON string: '"', '\\' and control characters are
\* escaped, everything else (non-ASCII included) is written as it is.
JsonChar(c) ==
    IF c = 34 THEN <<92, 34>>
    ELSE IF c = 92 THEN <<92, 92>>
    ELSE IF c = 10 THEN <<92, 110>>
    ELSE IF c = 13 THEN <<92, 114>>
    ELSE IF c = 9 THEN <<92, 116>>
    ELSE IF c = 8 THEN <<92, 98>>
    ELSE IF c = 12 THEN <<92, 102>>
    ELSE IF c < 32 THEN <<92, 117, 48, 48, HexDigit(c \div 16), HexDigit(c % 16)>>
    ELSE <<c>>

\* Mutant of JsonString: the characters are written without escaping
JsonStringRaw(s) == <<34>> \o s \o <<34>>

JsonString(s) == <<34>> \o Flatten([i \in 1..Len(s) |-> JsonChar(s[i])]) \o <<34>>

\* An int or None
JsonOptInt(n) == IF n = None THEN <<110, 117, 108, 108>> ELSE IntStr(n)

(***************************************************************************)
(* The Metric objects of the batch and their serialization                 *)
(* (send_to_zabbix, lines 37-61).                                          *)
(***************************************************************************)
\* str(m.value) for a str or an int value
Str(v) == IF v.t = "int" THEN IntStr(v.n) ELSE v.s

\* Mutant of Falsy: "if m.clock:", the test inverted
FalsyInverted(clock) == ~(clock = None \/ clock = 0)

\* "not m.clock": None and 0 are falsy
Falsy(clock) == clock = None \/ clock = 0

\* Mutant of MetricData: a ns supplied by the caller is kept when the clock
\* is regenerated
MetricDataKeepsNs(m, i) ==
    [host |-> m.host, key |-> m.key, value |-> Str(m.value),
     clock |-> IF Falsy(m.clock) THEN i \div NsPerSec ELSE m.clock,
     ns |-> IF Falsy(m.clock) /\ m.ns = None THEN i % NsPerSec ELSE m.ns]

\* The dict appended to metrics_data for metric m when the wall clock reads
\* i nanoseconds (i is used only when m.clock is falsy).
MetricData(m, i) ==
    [host |-> m.host, key |-> m.key, value |-> Str(m.value),
     clock |-> IF Falsy(m.clock) THEN i \div NsPerSec ELSE m.clock,
     ns |-> IF Falsy(m.clock) THEN i % NsPerSec ELSE m.ns]

\* {"host":...,"key":...,"value":...,"clock":...,"ns":...}
DumpsItem(d) ==
    <<123>> \o <<34, 104, 111, 115, 116, 34, 58>> \o JsonString(d.host)
            \o <<44, 34, 107, 101, 121, 34, 58>> \o JsonString(d.key)
            \o <<44, 34, 118, 97, 108, 117, 101, 34, 58>> \o JsonString(d.value)
            \o <<44, 34, 99, 108, 111, 99, 107, 34, 58>> \o JsonOptInt(d.clock)
            \o <<44, 34, 110, 115, 34, 58>> \o JsonOptInt(d.ns)
            \o <<125>>

RECURSIVE DumpsItems(_)
DumpsItems(ds) ==
    IF ds = <<>> THEN <<>>
    ELSE IF Len(ds) = 1 THEN DumpsItem(ds[1])
    ELSE DumpsItem(ds[1]) \o <<44>> \o DumpsItems(Tail(ds))

\* json.dumps({"request": "sender data", "data": metrics_data}, ...)
DumpsRequest(ds) ==
    <<123, 34, 114, 101, 113, 117, 101, 115, 116, 34, 58,
      34, 115, 101, 110, 100, 101, 114, 32, 100, 97, 116, 97, 34, 44,
      34, 100, 97, 116, 97, 34, 58, 91>>
    \o DumpsItems(ds) \o <<93, 125>>

\* struct.pack('<Q', len(json_data)): len of a str counts characters
DataLen(json_data) == PackQ(Len(json_data))

\* b'ZBXD\1' + data_len + json_data.encode()
Packet(json_data) == ZbxTag \o DataLen(json_data) \o Encode(json_data)

(***************************************************************************)
(* json.loads: bytes are decoded as UTF-8, then one JSON value is parsed.  *)
(* A value is [t, s, n, items]; an object's items are <<[k, v], ...>>.     *)
(* Fractions and exponents are recognised but their value is not kept.     *)
(***************************************************************************)
JNull == [t |-> "null", s |-> <<>>, n |-> 0, items |-> <<>>]
JStr(s) == [t |-> "str", s |-> s, n |-> 0, items |-> <<>>]
JInt(n) == [t |-> "int", s |-> <<>>, n |-> n, items |-> <<>>]
JBool(b) == [t |-> "bool", s |-> <<>>, n |-> IF b THEN 1 ELSE 0, items |-> <<>>]
JFloat == [t |-> "float", s |-> <<>>, n |-> 0, items |-> <<>>]
JObj(items) == [t |-> "obj", s |-> <<>>, n |-> 0, items |-> items]
JArr(items) == [t |-> "arr", s |-> <<>>, n |-> 0, items |-> items]

Fail == [ok |-> FALSE, v |-> JNull, pos |-> 0]
Ok(v, pos) == [ok |-> TRUE, v |-> v, pos |-> pos]

IsCont(b) == b >= 128 /\ b < 192

\* The character that starts at b[i]: [ok, c, w], w the bytes it takes
Utf8At(b, i) ==
    IF b[i] < 128 THEN [ok |-> TRUE, c |-> b[i], w |-> 1]
    ELSE IF b[i] >= 194 /\ b[i] < 224 /\ i + 1 <= Len(b) /\ IsCont(b[i + 1])
        THEN [ok |-> TRUE, c |-> (b[i] - 192) * 64 + (b[i + 1] - 128), w |-> 2]
    ELSE IF b[i] >= 224 /\ b[i] < 240 /\ i + 2 <= Len(b)
            /\ IsCont(b[i + 1]) /\ IsCont(b[i + 2])
            /\ (b[i] - 224) * 4096 + (b[i + 1] - 128) * 64 >= 2048
        THEN [ok |-> TRUE, w |-> 3,
              c |-> (b[i] - 224) * 4096 + (b[i + 1] - 128) * 64 + (b[i + 2] - 128)]
    ELSE IF b[i] >= 240 /\ b[i] < 245 /\ i + 3 <= Len(b)
            /\ IsCont(b[i + 1]) /\ IsCont(b[i + 2]) /\ IsCont(b[i + 3])
            /\ (b[i] - 240) * 262144 + (b[i + 1] - 128) * 4096 >= 65536
        THEN [ok |-> TRUE, w |-> 4,
              c |-> (b[i] - 240) * 262144 + (b[i + 1] - 128) * 4096
                    + (b[i + 2] - 128) * 64 + (b[i + 3] - 128)]
    ELSE [ok |-> FALSE, c |-> 0, w |-> 0]

\* Up to n characters from b[i] on: [ok, s, pos]
RECURSIVE Utf8Run(_, _, _)
Utf8Run(b, i, n) ==
    IF i > Len(b) \/ n = 0 THEN [ok |-> TRUE, s |-> <<>>, pos |-> i]
    ELSE LET a == Utf8At(b, i)
         IN  IF ~a.ok THEN [ok |-> FALSE, s |-> <<>>, pos |-> i]
             ELSE LET r == Utf8Run(b, i + a.w, n - 1)
                  IN  [ok |-> r.ok, s |-> <<a.c>> \o r.s, pos |-> r.pos]

\* bytes.decode('utf-8') from b[i] on, in runs of 16 characters: [ok, s]
RECURSIVE Utf8Decode(_, _, _)
Utf8Decode(b, i, acc) ==
    IF i > Len(b) THEN [ok |-> TRUE, s |-> acc]
    ELSE LET r == Utf8Run(b, i, 16)
         IN  IF ~r.ok THEN [ok |-> FALSE, s |-> <<>>]
             ELSE Utf8Decode(b, r.pos, acc \o r.s)

IsWs(c) == c \in {32, 9, 10, 13}
IsDigit(c) == c >= 48 /\ c <= 57
IsHex(c) == IsDigit(c) \/ (c >= 97 /\ c <= 102) \/ (c >= 65 /\ c <= 70)
HexVal(c) == IF IsDigit(c) THEN c - 48 ELSE IF c >= 97 THEN c - 87 ELSE c - 55

RECURSIVE SkipWs(_, _)
SkipWs(s, i) == IF i <= Len(s) /\ IsWs(s[i]) THEN SkipWs(s, i + 1) ELSE i

RECURSIVE SkipDigits(_, _)
SkipDigits(s, i) == IF i <= Len(s) /\ IsDigit(s[i]) THEN SkipDigits(s, i + 1) ELSE i

RECURSIVE DigitsVal(_, _, _)
DigitsVal(s, i, j) ==
    IF j < i THEN 0 ELSE 10 * DigitsVal(s, i, j - 1) + (s[j] - 48)

\* The simple escapes: \" \\ \/ \b \f \n \r \t
Unescape(c) ==
    CASE c = 34 -> 34 [] c = 92 -> 92 [] c = 47 -> 47 [] c = 98 -> 8
      [] c = 102 -> 12 [] c = 110 -> 10 [] c = 114 -> 13 [] c = 116 -> 9
      [] OTHER -> 0

\* s[i] is the character after the opening quote
RECURSIVE ParseChars(_, _, _)
ParseChars(s, i, acc) ==
    IF i > Len(s) THEN Fail
    ELSE IF s[i] = 34 THEN Ok(JStr(acc), i + 1)
    ELSE IF s[i] < 32 THEN Fail
    ELSE IF s[i] # 92 THEN ParseChars(s, i + 1, Append(acc, s[i]))
    ELSE IF i + 1 > Len(s) THEN Fail
    ELSE IF s[i + 1] = 117 THEN
        IF i + 5 <= Len(s) /\ \A k \in 2..5 : IsHex(s[i + k])
        THEN ParseChars(s, i + 6, Append(acc,
                 4096 * HexVal(s[i + 2]) + 256 * HexVal(s[i + 3])
                 + 16 * HexVal(s[i + 4]) + HexVal(s[i + 5])))
        ELSE Fail
    ELSE IF Unescape(s[i + 1]) = 0 THEN Fail
    ELSE ParseChars(s, i + 2, Append(acc, Unescape(s[i + 1])))

\* -?(0|[1-9]\d*)(\.\d+)?([eE][-+]?\d+)?
ParseNumber(s, i) ==
    LET d == IF s[i] = 45 THEN i + 1 ELSE i
        e == IF d <= Len(s) /\ s[d] = 48 THEN d + 1 ELSE SkipDigits(s, d)
        f == IF e + 1 <= Len(s) /\ s[e] = 46 /\ IsDigit(s[e + 1])
             THEN SkipDigits(s, e + 1) ELSE e
        x == IF f <= Len(s) /\ s[f] \in {101, 69} THEN
                 IF f + 1 <= Len(s) /\ s[f + 1] \in {43, 45} THEN f + 2 ELSE f + 1
             ELSE f
        g == IF x > f /\ x <= Len(s) /\ IsDigit(s[x]) THEN SkipDigits(s, x) ELSE f
    IN  IF e = d THEN Fail
        ELSE IF g > e THEN Ok(JFloat, g)
        ELSE Ok(JInt(IF d > i THEN -DigitsVal(s, d, e - 1) ELSE DigitsVal(s, d, e - 1)), e)

RECURSIVE ParseValue(_, _), ParseMembers(_, _, _), ParseElements(_, _, _)

\* s[i] is the first character of the value
ParseValue(s, i) ==
    IF i > Len(s) THEN Fail
    ELSE IF s[i] = 34 THEN ParseChars(s, i + 1, <<>>)
    ELSE IF s[i] = 123 THEN
        LET j == SkipWs(s, i + 1)
        IN  IF j <= Len(s) /\ s[j] = 125 THEN Ok(JObj(<<>>), j + 1)
            ELSE ParseMembers(s, j, <<>>)
    ELSE IF s[i] = 91 THEN
        LET j == SkipWs(s, i + 1)
        IN  IF j <= Len(s) /\ s[j] = 93 THEN Ok(JArr(<<>>), j + 1)
            ELSE ParseElements(s, j, <<>>)
    ELSE IF StartsWith(Drop(s, i - 1), <<110, 117, 108, 108>>) THEN Ok(JNull, i + 4)
    ELSE IF StartsWith(Drop(s, i - 1), <<116, 114, 117, 101>>) THEN Ok(JBool(TRUE), i + 4)
    ELSE IF StartsWith(Drop(s, i - 1), <<102, 97, 108, 115, 101>>)
        THEN Ok(JBool(FALSE), i + 5)
    ELSE IF s[i] = 45 \/ IsDigit(s[i]) THEN ParseNumber(s, i)
    ELSE Fail

\* s[i] must be the opening quote of the next key
ParseMembers(s, i, acc) ==
    IF i > Len(s) \/ s[i] # 34 THEN Fail
    ELSE LET k == ParseChars(s, i + 1, <<>>)
         IN  IF ~k.ok THEN Fail
             ELSE LET c == SkipWs(s, k.pos)
                  IN  IF c > Len(s) \/ s[c] # 58 THEN Fail
                      ELSE LET v == ParseValue(s, SkipWs(s, c + 1))
                           IN  IF ~v.ok THEN Fail
                               ELSE LET e == SkipWs(s, v.pos)
                                        items == Append(acc, [k |-> k.v.s, v |-> v.v])
                                    IN  IF e > Len(s) THEN Fail
                                        ELSE IF s[e] = 125 THEN Ok(JObj(items), e + 1)
                                        ELSE IF s[e] = 44
                                            THEN ParseMembers(s, SkipWs(s, e + 1), items)
                                        ELSE Fail

\* s[i] is the first character of the next element
ParseElements(s, i, acc) ==
    LET v == ParseValue(s, i)
    IN  IF ~v.ok THEN Fail
        ELSE LET e == SkipWs(s, v.pos)
                 items == Append(acc, v.v)
             IN  IF e > Len(s) THEN Fail
                 ELSE IF s[e] = 93 THEN Ok(JArr(items), e + 1)
                 ELSE IF s[e] = 44 THEN ParseElements(s, SkipWs(s, e + 1), items)
                 ELSE Fail

\* json.loads(b) for a bytes object b: [ok, v]; ~ok is a raised exception.
Loads(b) ==
    LET d == Utf8Decode(b, 1, <<>>)
    IN  IF ~d.ok THEN [ok |-> FALSE, v |-> JNull]
        ELSE LET r == ParseValue(d.s, SkipWs(d.s, 1))
             IN  IF r.ok /\ SkipWs(d.s, r.pos) > Len(d.s)
                 THEN [ok |-> TRUE, v |-> r.v]
                 ELSE [ok |-> FALSE, v |-> JNull]

\* dict.get(key): the last member named key, None (null) when there is none
DictGet(obj, key) ==
    LET hits == {i \in 1..Len(obj.items) : obj.items[i].k = key}
    IN  IF hits = {} THEN JNull
        ELSE obj.items[CHOOSE i \in hits : \A j \in hits : j <= i].v


(***************************************************************************)
(* The inputs of one call: the batch of Metric objects, the wall clock,    *)
(* and what the server at (zabbix_host, zabbix_port) does.                 *)
(***************************************************************************)
StrVal(s) == [t |-> "str", s |-> s, n |-> 0]
IntVal(n) == [t |-> "int", s |-> <<>>, n |-> n]

\* Metric('h', 'k', 'v'), Metric('é', 'k', 42, 5, 7), Metric('h', 'k"', 'v', 5),
\* Metric('h', 'k', 0, 0, 7)
Metrics ==
    { [host |-> <<104>>, key |-> <<107>>, value |-> StrVal(<<118>>),
       clock |-> None, ns |-> None],
      [host |-> <<233>>, key |-> <<107>>, value |-> IntVal(42),
       clock |-> 5, ns |-> 7],
      [host |-> <<104>>, key |-> <<107, 34>>, value |-> StrVal(<<118>>),
       clock |-> 5, ns |-> None],
      [host |-> <<104>>, key |-> <<107>>, value |-> IntVal(0),
       clock |-> 0, ns |-> 7] }

Batches == UNION {[1..n -> Metrics] : n \in 0..MaxBatch}

\* Readings of time.time_ns()
WallClock == {1000000007, 1999999999}

\* A response envelope as a server builds it
Envelope(body) == ZbxTag \o PackQ(Len(body)) \o body

BodySuccess ==
    <<123, 34, 114, 101, 115, 112, 111, 110, 115, 101, 34, 58, 34, 115, 117,
      99, 99, 101, 115, 115, 34, 44, 34, 105, 110, 102, 111, 34, 58, 34, 111,
      107, 34, 125>>
\* {"response":"success"} followed by a newline
BodySuccessNewline ==
    <<123, 34, 114, 101, 115, 112, 111, 110, 115, 101, 34, 58, 34, 115, 117,
      99, 99, 101, 115, 115, 34, 125, 10>>
BodyFailed ==
    <<123, 34, 114, 101, 115, 112, 111, 110, 115, 101, 34, 58, 34, 102, 97,
      105, 108, 101, 100, 34, 125>>
BodyNoResponse == <<123, 34, 105, 110, 102, 111, 34, 58, 34, 111, 107, 34, 125>>

\* What the server sends after accepting the connection, and whether it then
\* closes the connection (closes = FALSE: it stays silent).
Replies ==
    { [bytes |-> Envelope(BodySuccess), closes |-> TRUE],
      [bytes |-> Envelope(BodyFailed), closes |-> TRUE],
      [bytes |-> Envelope(BodyNoResponse), closes |-> TRUE],
      [bytes |-> Envelope(BodySuccessNewline), closes |-> TRUE],
      [bytes |-> Envelope(<<91, 93>>), closes |-> TRUE],
      [bytes |-> Envelope(<<111, 107>>), closes |-> TRUE],
      [bytes |-> Envelope(<<>>), closes |-> TRUE],
      [bytes |-> <<90, 66, 88, 68, 2>> \o PackQ(Len(BodySuccess)) \o BodySuccess,
       closes |-> TRUE],
      [bytes |-> Take(Envelope(BodySuccess), 7), closes |-> TRUE],
      [bytes |-> <<>>, closes |-> TRUE],
      [bytes |-> <<>>, closes |-> FALSE] }

\* The reply is a well-formed envelope whose body is a JSON object with
\* response == "success".
WellFormedSuccess(r) ==
    /\ Len(r.bytes) >= HeaderLen
    /\ StartsWith(r.bytes, ZbxTag)
    /\ UnpackQ(SubSeq(r.bytes, 6, HeaderLen)) = Len(r.bytes) - HeaderLen
    /\ LET j == Loads(Drop(r.bytes, HeaderLen))
       IN  /\ j.ok
           /\ j.v.t = "obj"
           /\ DictGet(j.v, <<114, 101, 115, 112, 111, 110, 115, 101>>)
                = JStr(<<115, 117, 99, 99, 101, 115, 115>>)

(***************************************************************************)
(* The state of one call of send_to_zabbix.                                *)
(***************************************************************************)
VARIABLES
    metrics,        \* the batch passed by the caller
    reply,          \* the server's behaviour
    pc,             \* the statement the call is at
    metrics_data,   \* the list built by the loop of lines 38-54
    reads,          \* the readings of time.time_ns() taken so far
    json_data,      \* str
    packet,         \* bytes
    bound,          \* the local names of the try block that are bound
    sock,           \* the socket object: [open, connected, timeout]
    wire,           \* the bytes the socket has written to the connection
    inbox,          \* the bytes of the reply not yet read
    buf,            \* _recv_all's buffer
    resp_hdr, resp_body_len, resp_body, resp,
    result,         \* the pending return value: "none", "True", "False"
    raised,         \* the exceptions raised by socket operations, in order
    log,            \* the events passed to logger
    ops,            \* the socket operations started, in order
    cur,            \* the call that is running: 1 or 2
    other           \* the frame of the call that is not running

vars == <<metrics, reply, pc, metrics_data, reads, json_data, packet, bound,
          sock, wire, inbox, buf, resp_hdr, resp_body_len, resp_body, resp,
          result, raised, log, ops, cur, other>>

encodeVars == <<metrics_data, reads, json_data, packet>>
respVars == <<resp_hdr, resp_body_len, resp_body, resp>>

\* timeout: int = 15
TimeoutArg == 15

\* No second call
NoCall == [pc |-> "none"]

\* Line 30: a call is entered with its arguments; nothing else is bound
InitCall ==
    /\ pc = "loop"
    /\ metrics_data = <<>>
    /\ reads = <<>>
    /\ json_data = <<>>
    /\ packet = <<>>
    /\ bound = {}
    /\ sock = [open |-> FALSE, connected |-> FALSE, timeout |-> None]
    /\ wire = <<>>
    /\ inbox = <<>>
    /\ buf = <<>>
    /\ resp_hdr = <<>>
    /\ resp_body_len = 0
    /\ resp_body = <<>>
    /\ resp = [ok |-> FALSE, v |-> JNull]
    /\ result = "none"
    /\ raised = <<>>
    /\ ops = <<>>

\* One call, of any batch, to a server of any behaviour
Init ==
    /\ metrics \in Batches
    /\ reply \in Replies
    /\ InitCall
    /\ log = <<>>
    /\ cur = 1
    /\ other = NoCall

\* Lines 38-54: one iteration of "for m in metrics", and the end of the loop
Serialize ==
    /\ pc = "loop"
    /\ Len(metrics_data) < Len(metrics)
    /\ LET m == metrics[Len(metrics_data) + 1]
       IN  IF Falsy(m.clock)
           THEN \E i \in WallClock :
                    /\ reads' = Append(reads, i)
                    /\ metrics_data' = Append(metrics_data, MetricData(m, i))
           ELSE /\ reads' = reads
                /\ metrics_data' = Append(metrics_data, MetricData(m, 0))
    /\ UNCHANGED <<cur, other,
                   metrics, reply, pc, json_data, packet, bound, sock, wire,
                   inbox, buf, respVars, result, raised, log, ops>>

\* Lines 55-61
BuildPacket ==
    /\ pc = "loop"
    /\ Len(metrics_data) = Len(metrics)
    /\ json_data' = DumpsRequest(metrics_data)
    /\ packet' = Packet(DumpsRequest(metrics_data))
    /\ pc' = "socket"
    /\ UNCHANGED <<cur, other,
                   metrics, reply, metrics_data, reads, bound, sock, wire,
                   inbox, buf, respVars, result, raised, log, ops>>

\* Mutant of Handler: "except Exception" placed first catches everything
HandlerGenericFirst(e) ==
    [level |-> "exception", msg |-> "Error while sending data to Zabbix"]

\* Mutant of Handler: the timeout is logged as a warning
HandlerTimeoutWarning(e) ==
    IF e = "timeout"
    THEN [level |-> "warning", msg |-> "zabbix timeout"]
    ELSE [level |-> "exception", msg |-> "Error while sending data to Zabbix"]

\* The except clause that catches exception e (lines 83-88): the message
\* logged and its severity.
Handler(e) ==
    IF e = "timeout"
    THEN [level |-> "error", msg |-> "zabbix timeout"]
    ELSE [level |-> "exception", msg |-> "Error while sending data to Zabbix"]

\* Mutant of Raise: a first timeout of sendall is answered by sending the
\* packet again
RaiseOrRetry(op, e) ==
    /\ raised' = Append(raised, [op |-> op, e |-> e])
    /\ log' = Append(log, Handler(e))
    /\ IF op = "sendall" /\ e = "timeout" /\ raised = <<>>
       THEN pc' = "sendall" /\ result' = result
       ELSE pc' = "finally" /\ result' = "False"

\* A socket operation (op) raises e: the except clause logs and returns False,
\* which leaves the function through the finally clause.
Raise(op, e) ==
    /\ raised' = Append(raised, [op |-> op, e |-> e])
    /\ log' = Append(log, Handler(e))
    /\ result' = "False"
    /\ pc' = "finally"

\* The record of a socket operation as it starts
Op(name, n) == [op |-> name, n |-> n, timeout |-> sock.timeout]

\* Line 63: zabbix = socket.socket().  When it raises (EMFILE, ...), zabbix
\* stays unbound.
CreateSocket ==
    /\ pc = "socket"
    /\ ops' = Append(ops, Op("socket", 0))
    /\ \/ /\ sock' = [sock EXCEPT !.open = TRUE]
          /\ bound' = bound \cup {"zabbix"}
          /\ pc' = "connect"
          /\ UNCHANGED <<result, raised, log>>
       \/ /\ Raise("socket", "error")
          /\ UNCHANGED <<sock, bound>>
    /\ UNCHANGED <<cur, other,
                   metrics, reply, encodeVars, wire, inbox, buf, respVars>>

\* Line 64: zabbix.connect(...).  The exceptions of a socket operation are
\* "timeout" (an instance of socket.timeout) and "error" (any other).
Connect ==
    /\ pc = "connect"
    /\ ops' = Append(ops, Op("connect", 0))
    /\ \/ /\ sock' = [sock EXCEPT !.connected = TRUE]
          /\ inbox' = reply.bytes
          /\ pc' = "settimeout"
          /\ UNCHANGED <<result, raised, log>>
       \/ \E e \in {"timeout", "error"} :
              /\ Raise("connect", e)
              /\ UNCHANGED <<sock, inbox>>
    /\ UNCHANGED <<cur, other,
                   metrics, reply, encodeVars, bound, wire, buf, respVars>>

\* Line 65: zabbix.settimeout(timeout)
SetTimeout ==
    /\ pc = "settimeout"
    /\ ops' = Append(ops, Op("settimeout", TimeoutArg))
    /\ sock' = [sock EXCEPT !.timeout = TimeoutArg]
    /\ pc' = "sendall"
    /\ UNCHANGED <<cur, other,
                   metrics, reply, encodeVars, bound, wire, inbox, buf,
                   respVars, result, raised, log>>

\* Line 67: zabbix.sendall(packet).  When it raises, an unknown part of the
\* packet has been written.
SendAll ==
    /\ pc = "sendall"
    /\ ops' = Append(ops, Op("sendall", Len(packet)))
    /\ \/ /\ wire' = wire \o packet
          /\ pc' = "recv_hdr"
          /\ UNCHANGED <<result, raised, log>>
       \/ \E e \in {"timeout", "error"}, k \in {0, HeaderLen} :
              /\ wire' = wire \o Take(packet, k)
              /\ Raise("sendall", e)
    /\ UNCHANGED <<cur, other,
                   metrics, reply, encodeVars, bound, sock, inbox, buf,
                   respVars>>

\* What sock.recv(n) can return: nothing at once for n = 0; otherwise any
\* non-empty prefix of the unread bytes of at most n bytes, or b'' once the
\* peer has closed and everything was read.  (Empty set: the call blocks.)
Chunks(n) ==
    IF n = 0 THEN {<<>>}
    ELSE IF inbox # <<>>
        THEN {Take(inbox, k) : k \in 1..(IF n < Len(inbox) THEN n ELSE Len(inbox))}
    ELSE IF reply.closes THEN {<<>>}
    ELSE {}

\* The exceptions sock.recv(n) can raise: a reset or a late segment at any
\* time; the timeout when it blocks on a silent peer.
RecvRaises(n) ==
    IF Chunks(n) = {} THEN {"timeout"} ELSE {"timeout", "error"}

\* Mutant of RecvSize: every read asks for the whole count again
RecvSizeWhole(count, have) == count

\* Line 99: the size asked of sock.recv, count - len(buf)
RecvSize(count, have) == count - have

\* Lines 69 and 96-103: one iteration of the loop of _recv_all(zabbix, 13),
\* with the return that follows it when the loop is left.
RecvHeader ==
    /\ pc = "recv_hdr"
    /\ Len(buf) < HeaderLen
    /\ ops' = IF ops[Len(ops)].op = "recv" THEN ops
              ELSE Append(ops, Op("recv", HeaderLen))
    /\ \/ \E chunk \in Chunks(RecvSize(HeaderLen, Len(buf))) :
              /\ buf' = buf \o chunk
              /\ inbox' = Drop(inbox, Len(chunk))
              /\ IF chunk = <<>> \/ Len(buf \o chunk) >= HeaderLen
                 THEN /\ resp_hdr' = buf \o chunk
                      /\ bound' = bound \cup {"resp_hdr"}
                      /\ pc' = "check_hdr"
                 ELSE UNCHANGED <<resp_hdr, bound, pc>>
              /\ UNCHANGED <<result, raised, log>>
       \/ \E e \in RecvRaises(RecvSize(HeaderLen, Len(buf))) :
              /\ Raise("recv", e)
              /\ UNCHANGED <<buf, inbox, resp_hdr, bound>>
    /\ UNCHANGED <<cur, other,
                   metrics, reply, encodeVars, sock, wire, resp_body_len,
                   resp_body, resp>>

\* Mutant of HeaderOk: the length of the header is not checked
HeaderOkTagOnly(h) == StartsWith(h, ZbxTag)

\* Mutant of HeaderOk: either test is enough to accept the header
HeaderOkEither(h) == StartsWith(h, ZbxTag) \/ Len(h) = HeaderLen

\* Line 70, negated: the header is accepted
HeaderOk(h) == StartsWith(h, ZbxTag) /\ Len(h) = HeaderLen

\* Lines 70-73
CheckHeader ==
    /\ pc = "check_hdr"
    /\ IF ~HeaderOk(resp_hdr)
       THEN /\ log' = Append(log, [level |-> "error", msg |-> "Wrong zabbix response"])
            /\ result' = "False"
            /\ pc' = "finally"
            /\ UNCHANGED <<resp_body_len, bound>>
       ELSE /\ resp_body_len' = UnpackQ(Drop(resp_hdr, 5))
            /\ bound' = bound \cup {"resp_body_len"}
            /\ pc' = "recv_body"
            /\ UNCHANGED <<log, result>>
    /\ UNCHANGED <<cur, other,
                   metrics, reply, encodeVars, sock, wire, inbox, buf,
                   resp_hdr, resp_body, resp, raised, ops>>

\* Line 75: resp_body = zabbix.recv(resp_body_len), one call
RecvBody ==
    /\ pc = "recv_body"
    /\ ops' = Append(ops, Op("recv", resp_body_len))
    /\ \/ \E chunk \in Chunks(resp_body_len) :
              /\ resp_body' = chunk
              /\ inbox' = Drop(inbox, Len(chunk))
              /\ bound' = bound \cup {"resp_body"}
              /\ pc' = "parse"
              /\ UNCHANGED <<result, raised, log>>
       \/ \E e \in RecvRaises(resp_body_len) :
              /\ Raise("recv", e)
              /\ UNCHANGED <<resp_body, inbox, bound>>
    /\ UNCHANGED <<cur, other,
                   metrics, reply, encodeVars, sock, wire, buf, resp_hdr,
                   resp_body_len, resp>>

\* Line 79, negated: resp.get('response') == 'success'
IsSuccess(r) ==
    DictGet(r, <<114, 101, 115, 112, 111, 110, 115, 101>>)
        = JStr(<<115, 117, 99, 99, 101, 115, 115>>)

DebugEvent == [level |-> "debug", msg |-> "Got response from Zabbix"]
InfoEvent == [level |-> "info", msg |-> "info"]

\* Lines 76-82: json.loads raises on a body that is no JSON text, resp.get
\* raises (AttributeError) when the JSON value is no object.
ParseResponse ==
    /\ pc = "parse"
    /\ LET j == Loads(resp_body)
       IN  IF ~j.ok
           THEN /\ raised' = Append(raised, [op |-> "json.loads", e |-> "error"])
                /\ log' = Append(log, Handler("error"))
                /\ result' = "False"
                /\ UNCHANGED <<resp, bound>>
           ELSE /\ resp' = j
                /\ bound' = bound \cup {"resp"}
                /\ IF j.v.t # "obj"
                   THEN /\ raised' = Append(raised, [op |-> "resp.get", e |-> "error"])
                        /\ log' = log \o <<DebugEvent, Handler("error")>>
                        /\ result' = "False"
                   ELSE IF ~IsSuccess(j.v)
                   THEN /\ log' = log \o <<DebugEvent, InfoEvent,
                                   [level |-> "error", msg |-> "Got error from Zabbix"]>>
                        /\ result' = "False"
                        /\ UNCHANGED raised
                   ELSE /\ log' = log \o <<DebugEvent, InfoEvent>>
                        /\ result' = "True"
                        /\ UNCHANGED raised
    /\ pc' = "finally"
    /\ UNCHANGED <<cur, other,
                   metrics, reply, encodeVars, sock, wire, inbox, buf,
                   resp_hdr, resp_body_len, resp_body, ops>>

\* Mutant of Close: close() as the last statement of the try block instead
\* of a finally clause, so that a raised exception skips it
CloseWithoutFinally ==
    /\ pc = "finally"
    /\ IF raised = <<>>
       THEN /\ ops' = Append(ops, Op("close", 0))
            /\ sock' = [sock EXCEPT !.open = FALSE, !.connected = FALSE]
       ELSE UNCHANGED <<ops, sock>>
    /\ pc' = "done"
    /\ UNCHANGED <<cur, other,
                   metrics, reply, encodeVars, bound, wire, inbox, buf,
                   respVars, log, result, raised>>

\* Line 90, the finally clause: zabbix.close().  When zabbix is unbound the
\* statement raises UnboundLocalError, which replaces the pending return.
Close ==
    /\ pc = "finally"
    /\ IF "zabbix" \in bound
       THEN /\ ops' = Append(ops, Op("close", 0))
            /\ sock' = [sock EXCEPT !.open = FALSE, !.connected = FALSE]
            /\ UNCHANGED <<result, raised>>
       ELSE /\ result' = "raise"
            /\ raised' = Append(raised, [op |-> "close", e |-> "UnboundLocalError"])
            /\ UNCHANGED <<ops, sock>>
    /\ pc' = "done"
    /\ UNCHANGED <<cur, other,
                   metrics, reply, encodeVars, bound, wire, inbox, buf,
                   respVars, log>>

Next ==
    \/ Serialize
    \/ BuildPacket
    \/ CreateSocket
    \/ Connect
    \/ SetTimeout
    \/ SendAll
    \/ RecvHeader
    \/ CheckHeader
    \/ RecvBody
    \/ ParseResponse
    \/ Close

Spec == Init /\ [][Next]_vars

(***************************************************************************)
(* Two calls of send_to_zabbix that run concurrently (two threads of the   *)
(* caller).  Everything a call reads or writes is one of its arguments or  *)
(* local variables, the socket object of line 63 included, which no other  *)
(* name refers to: a switch of thread saves and restores all of it.  The   *)
(* module-level logger (line 93) is the one object the calls share.        *)
(***************************************************************************)
\* The frame of the running call
Frame ==
    [metrics |-> metrics, reply |-> reply, pc |-> pc,
     metrics_data |-> metrics_data, reads |-> reads, json_data |-> json_data,
     packet |-> packet, bound |-> bound, sock |-> sock, wire |-> wire,
     inbox |-> inbox, buf |-> buf, resp_hdr |-> resp_hdr,
     resp_body_len |-> resp_body_len, resp_body |-> resp_body, resp |-> resp,
     result |-> result, raised |-> raised, ops |-> ops]

\* The frame of a call as it is entered
StartFrame(m, r) ==
    [metrics |-> m, reply |-> r, pc |-> "loop", metrics_data |-> <<>>,
     reads |-> <<>>, json_data |-> <<>>, packet |-> <<>>, bound |-> {},
     sock |-> [open |-> FALSE, connected |-> FALSE, timeout |-> None],
     wire |-> <<>>, inbox |-> <<>>, buf |-> <<>>, resp_hdr |-> <<>>,
     resp_body_len |-> 0, resp_body |-> <<>>,
     resp |-> [ok |-> FALSE, v |-> JNull], result |-> "none",
     raised |-> <<>>, ops |-> <<>>]

\* The calls that are run side by side, as <<metrics, reply>>:
\* Metric('é', 'k', 42, 5, 7) answered by {"response":"success"}\n,
\* Metric('h', 'k', 'v') answered by seven bytes and a close,
\* an empty batch answered by silence.
ConcCalls ==
    { << <<[host |-> <<233>>, key |-> <<107>>, value |-> IntVal(42),
            clock |-> 5, ns |-> 7]>>,
         [bytes |-> Envelope(BodySuccessNewline), closes |-> TRUE] >>,
      << <<[host |-> <<104>>, key |-> <<107>>, value |-> StrVal(<<118>>),
            clock |-> None, ns |-> None]>>,
         [bytes |-> Take(Envelope(BodySuccess), 7), closes |-> TRUE] >>,
      << <<>>, [bytes |-> <<>>, closes |-> FALSE] >> }

InitConc ==
    /\ \E c \in ConcCalls : metrics = c[1] /\ reply = c[2]
    /\ InitCall
    /\ log = <<>>
    /\ cur = 1
    /\ other \in {StartFrame(c[1], c[2]) : c \in ConcCalls}

\* Mutant of Switch: the socket is kept in a module-level variable, which
\* a switch of thread leaves as it is
SwitchGlobalSocket ==
    /\ other.pc \notin {"none", "done"}
    /\ other' = Frame
    /\ cur' = 3 - cur
    /\ metrics' = other.metrics
    /\ reply' = other.reply
    /\ pc' = other.pc
    /\ metrics_data' = other.metrics_data
    /\ reads' = other.reads
    /\ json_data' = other.json_data
    /\ packet' = other.packet
    /\ bound' = other.bound
    /\ buf' = other.buf
    /\ resp_hdr' = other.resp_hdr
    /\ resp_body_len' = other.resp_body_len
    /\ resp_body' = other.resp_body
    /\ resp' = other.resp
    /\ result' = other.result
    /\ raised' = other.raised
    /\ ops' = other.ops
    /\ UNCHANGED <<sock, wire, inbox, log>>

\* The scheduler runs the other thread: the frame of the running call is
\* set aside and the frame of the other call is resumed.
Switch ==
    /\ other.pc \notin {"none", "done"}
    /\ other' = Frame
    /\ cur' = 3 - cur
    /\ metrics' = other.metrics
    /\ reply' = other.reply
    /\ pc' = other.pc
    /\ metrics_data' = other.metrics_data
    /\ reads' = other.reads
    /\ json_data' = other.json_data
    /\ packet' = other.packet
    /\ bound' = other.bound
    /\ sock' = other.sock
    /\ wire' = other.wire
    /\ inbox' = other.inbox
    /\ buf' = other.buf
    /\ resp_hdr' = other.resp_hdr
    /\ resp_body_len' = other.resp_body_len
    /\ resp_body' = other.resp_body
    /\ resp' = other.resp
    /\ result' = other.result
    /\ raised' = other.raised
    /\ ops' = other.ops
    /\ UNCHANGED log

NextConc ==
    \/ Next
    \/ Switch

SpecConc == InitConc /\ [][NextConc]_vars

(***************************************************************************)
(* Observations on a state, used by the properties below.                  *)
(***************************************************************************)
CountOps(name) == Cardinality({i \in 1..Len(ops) : ops[i].op = name})
CountRaised(name) == Cardinality({i \in 1..Len(raised) : raised[i].op = name})

SocketOps == {"socket", "connect", "settimeout", "sendall", "recv", "close"}

\* A socket operation of the call raised
SocketRaised == \E i \in 1..Len(raised) : raised[i].op \in SocketOps

\* The call has returned a value or has left by an exception
Done == pc = "done"

\* A full header with the tag was received, the body read parsed as JSON
\* and its response field is "success"
ServerReportedSuccess ==
    /\ "resp_hdr" \in bound
    /\ Len(resp_hdr) = 13
    /\ SubSeq(resp_hdr, 1, 5) = <<90, 66, 88, 68, 1>>
    /\ "resp_body" \in bound
    /\ Loads(resp_body).ok
    /\ Loads(resp_body).v.t = "obj"
    /\ \E i \in 1..Len(Loads(resp_body).v.items) :
          /\ Loads(resp_body).v.items[i].k = <<114, 101, 115, 112, 111, 110, 115, 101>>
          /\ Loads(resp_body).v.items[i].v.t = "str"
          /\ Loads(resp_body).v.items[i].v.s = <<115, 117, 99, 99, 101, 115, 115>>
          /\ \A j \in (i + 1)..Len(Loads(resp_body).v.items) :
                Loads(resp_body).v.items[j].k # <<114, 101, 115, 112, 111, 110, 115, 101>>

(***************************************************************************)
(* C1: a call returns True only when a full 13-byte header with the tag    *)
(* was received, the body parsed as JSON and its response field is         *)
(* "success"; in every other outcome (any exception included) it returns   *)
(* False.                                                                  *)
(***************************************************************************)
C1_TrueOnlyOnSuccessElseFalse ==
    Done => /\ result = "True" => ServerReportedSuccess
            /\ ~ServerReportedSuccess => result = "False"

\* The first half of C1 alone: True is returned only on a reported success
C1_TrueOnlyOnSuccess == Done /\ result = "True" => ServerReportedSuccess

(***************************************************************************)
(* C2: when the server replies with a well-formed envelope whose body is   *)
(* a JSON object with response == "success" and no socket operation        *)
(* raises, the call returns True, however the reply is split across the    *)
(* reads.                                                                  *)
(***************************************************************************)
C2_SuccessReplyReturnsTrue ==
    Done /\ ~SocketRaised /\ WellFormedSuccess(reply) => result = "True"

(***************************************************************************)
(* C3: no error propagates out of the call as an exception: whatever step  *)
(* fails (socket creation, connect, send, receive, parse, inspection,      *)
(* close), the call returns False.                                         *)
(***************************************************************************)
C3_NoExceptionEscapes ==
    Done => /\ result \in {"True", "False"}
            /\ raised # <<>> => result = "False"

(***************************************************************************)
(* C4: every call opens exactly one connection and closes it exactly once  *)
(* before it returns, on every exit path; none remains open.               *)
(***************************************************************************)
\* The sockets the call has created, and the close() calls it has made
Opens == CountOps("socket") - CountRaised("socket")
Closes == CountOps("close")

\* C4 as stated
C4_OneOpenOneClose == Done => Opens = 1 /\ Closes = 1 /\ ~sock.open

\* C4 as amended: a call whose socket creation succeeds opens one socket and
\* closes it exactly once, at its end, on every exit path; a call whose socket
\* creation fails opens and closes nothing; no socket is open after the call.
C4_OpenedSocketClosedOnce ==
    /\ Opens <= 1
    /\ sock.open <=> (Opens = 1 /\ Closes = 0)
    /\ ~Done => Closes = 0
    /\ Done => /\ Closes = Opens
               /\ ~sock.open
               /\ Opens = 0 <=> CountRaised("socket") = 1

\* connect fails, and the socket is closed once all the same
C4_Witness ==
    Done /\ Opens = 1 /\ Closes = 1 /\ CountRaised("connect") = 1 /\ ~sock.open

(***************************************************************************)
(* C5: when _recv_all returns fewer than 13 bytes, or a header that does   *)
(* not begin with 'ZBXD\1', the call logs 'Wrong zabbix response' and      *)
(* returns False: no length is decoded, no body is read or parsed, nothing *)
(* is retried and nothing is raised.                                       *)
(***************************************************************************)
C5_BadHeaderIsProtocolMismatch ==
    (/\ pc \in {"finally", "done"}
     /\ "resp_hdr" \in bound
     /\ (Len(resp_hdr) < 13 \/ Take(resp_hdr, 5) # <<90, 66, 88, 68, 1>>))
    => /\ log = <<[level |-> "error", msg |-> "Wrong zabbix response"]>>
       /\ result = "False"
       /\ raised = <<>>
       /\ bound \cap {"resp_body_len", "resp_body", "resp"} = {}
       /\ CountOps("connect") = 1
       /\ CountOps("sendall") = 1
       /\ \A i \in 1..Len(ops) : ops[i].op = "recv" => ops[i].n = 13
       /\ CountOps("recv") = 1

\* The server sent 7 bytes and closed
C5_Witness ==
    Done /\ "resp_hdr" \in bound /\ Len(resp_hdr) = 7 /\ result = "False"

(***************************************************************************)
(* C6: a socket.timeout raised by a socket operation is reported by the    *)
(* 'zabbix timeout' error alone (not the generic exception event, not the  *)
(* protocol mismatch) and the call returns False; so it is when the server *)
(* accepts the connection and never responds.                              *)
(***************************************************************************)
TimeoutRaised == \E i \in 1..Len(raised) : raised[i].e = "timeout"

\* The error-severity events logged
ErrorEvents == SelectSeq(log, LAMBDA ev : ev.level \in {"error", "exception"})

SilentServer == reply.bytes = <<>> /\ ~reply.closes

C6_TimeoutIsDistinctFailure ==
    /\ (pc \in {"finally", "done"} /\ TimeoutRaised)
       => /\ ErrorEvents = <<[level |-> "error", msg |-> "zabbix timeout"]>>
          /\ result = "False"
    /\ (Done /\ SilentServer /\ CountOps("recv") > 0)
       => /\ ErrorEvents = <<[level |-> "error", msg |-> "zabbix timeout"]>>
          /\ result = "False"

\* The server accepted, took the request and stayed silent
C6_Witness ==
    /\ Done
    /\ SilentServer
    /\ wire = packet
    /\ raised = <<[op |-> "recv", e |-> "timeout"]>>
    /\ result = "False"

(***************************************************************************)
(* C7: the caller's timeout is in force for every socket operation of the  *)
(* call (connect, send, receive): none starts before settimeout.           *)
(***************************************************************************)
C7_TimeoutSetBeforeEveryOp ==
    \A i \in 1..Len(ops) :
        ops[i].op \in {"connect", "sendall", "recv"} => ops[i].timeout = 15

(***************************************************************************)
(* C8: the 8-byte little-endian length field at offset 5 of the request    *)
(* equals the number of bytes of the UTF-8 encoded JSON body that follows  *)
(* it, so the packet is 13 + length bytes long.                            *)
(***************************************************************************)
C8_LengthFieldIsByteLength ==
    pc # "loop" =>
        /\ SubSeq(packet, 14, Len(packet)) = Encode(json_data)
        /\ UnpackQ(SubSeq(packet, 6, 13)) = Len(packet) - 13

(***************************************************************************)
(* The request as a JSON parser reads it from the packet.                  *)
(***************************************************************************)
SentRequest == Loads(SubSeq(packet, 14, Len(packet)))

\* The elements of its "data" array
SentData == DictGet(SentRequest.v, <<100, 97, 116, 97>>).items

SentClock(i) == DictGet(SentData[i], <<99, 108, 111, 99, 107>>)
SentNs(i) == DictGet(SentData[i], <<110, 115>>)

\* An Optional[int] as JSON
JOptInt(n) == IF n = None THEN JNull ELSE JInt(n)

(***************************************************************************)
(* C9: the serialized clock/ns pair of every metric is either the pair the *)
(* caller supplied or a pair generated by the client from the wall clock;  *)
(* when clock or ns is absent both are generated, so ns is never null.     *)
(***************************************************************************)
C9_ClockPairNeverMixed ==
    pc = "socket" =>
        /\ SentRequest.ok
        /\ Len(SentData) = Len(metrics)
        /\ \A i \in 1..Len(metrics) :
              LET generated ==
                      \E r \in 1..Len(reads) :
                          /\ SentClock(i) = JInt(reads[r] \div 1000000000)
                          /\ SentNs(i) = JInt(reads[r] % 1000000000)
                  supplied ==
                      /\ metrics[i].clock # None
                      /\ metrics[i].ns # None
                      /\ SentClock(i) = JInt(metrics[i].clock)
                      /\ SentNs(i) = JInt(metrics[i].ns)
              IN  /\ generated \/ supplied
                  /\ (metrics[i].clock = None \/ metrics[i].ns = None) => generated
                  /\ SentNs(i).t = "int"

(***************************************************************************)
(* C10: for every metric with a supplied non-zero clock, the serialized    *)
(* clock and ns are the caller's clock and ns (an absent ns is null), and  *)
(* the wall clock is not read for it.                                      *)
(***************************************************************************)
C10_SuppliedClockKept ==
    pc = "socket" =>
        /\ SentRequest.ok
        /\ Len(SentData) = Len(metrics)
        /\ \A i \in 1..Len(metrics) :
              (metrics[i].clock # None /\ metrics[i].clock # 0)
              => /\ SentClock(i) = JInt(metrics[i].clock)
                 /\ SentNs(i) = JOptInt(metrics[i].ns)
        /\ Len(reads) = Cardinality({i \in 1..Len(metrics) :
                                        metrics[i].clock = None \/ metrics[i].clock = 0})

\* A batch of two: a metric sent with the caller's clock 5 and ns 7 after a
\* metric stamped by the client
C10_Witness ==
    /\ pc = "socket"
    /\ Len(metrics) = 2
    /\ metrics[1].clock = None
    /\ metrics[2].clock = 5 /\ metrics[2].ns = 7
    /\ SentClock(2) = JInt(5) /\ SentNs(2) = JInt(7)
    /\ Len(reads) = 1

(***************************************************************************)
(* C11: for every metric whose clock is absent or zero, clock and ns are   *)
(* both derived from one reading t of the wall clock in nanoseconds:       *)
(* clock = t div 10^9, ns = t mod 10^9, so clock * 10^9 + ns = t and       *)
(* 0 <= ns <= 999999999; a ns supplied by the caller is discarded.         *)
(***************************************************************************)
\* The metrics up to the i-th that the client stamps
Stamped(i) == {j \in 1..i : metrics[j].clock = None \/ metrics[j].clock = 0}

C11_StampedFromOneReading ==
    pc = "socket" =>
        /\ SentRequest.ok
        /\ Len(SentData) = Len(metrics)
        /\ Len(reads) = Cardinality(Stamped(Len(metrics)))
        /\ \A i \in Stamped(Len(metrics)) :
              LET t == reads[Cardinality(Stamped(i))]
              IN  /\ SentClock(i).t = "int"
                  /\ SentNs(i).t = "int"
                  /\ SentClock(i).n = t \div 1000000000
                  /\ SentNs(i).n = t % 1000000000
                  /\ SentNs(i).n >= 0 /\ SentNs(i).n <= 999999999
                  /\ SentClock(i).n * 1000000000 + SentNs(i).n = t

\* Metric('h', 'k', 0, 0, 7) stamped at t = 1999999999: its ns 7 is discarded
C11_Witness ==
    /\ pc = "socket"
    /\ Len(metrics) = 2
    /\ metrics[2].clock = 0 /\ metrics[2].ns = 7
    /\ metrics[1].clock = None
    /\ reads = <<1000000007, 1999999999>>
    /\ SentClock(2) = JInt(1) /\ SentNs(2) = JInt(999999999)
    /\ SentClock(1) = JInt(1) /\ SentNs(1) = JInt(7)

(***************************************************************************)
(* C12: decoding the request body yields request == "sender data" and a    *)
(* data array with one element per metric of the batch, in order, with     *)
(* host, key and the string form of the value (a JSON string, never a      *)
(* number).                                                                *)
(***************************************************************************)
SentHost(i) == DictGet(SentData[i], <<104, 111, 115, 116>>)
SentKey(i) == DictGet(SentData[i], <<107, 101, 121>>)
SentValue(i) == DictGet(SentData[i], <<118, 97, 108, 117, 101>>)

\* The JSON string s is the string form of the value v
IsStringOf(s, v) ==
    IF v.t = "int"
    THEN /\ s # <<>>
         /\ \A k \in 1..Len(s) : IsDigit(s[k])
         /\ (Len(s) > 1 => s[1] # 48)
         /\ DigitsVal(s, 1, Len(s)) = v.n
    ELSE s = v.s

C12_RequestRoundTrip ==
    pc = "socket" =>
        /\ SentRequest.ok
        /\ SentRequest.v.t = "obj"
        /\ Len(SentRequest.v.items) = 2
        /\ DictGet(SentRequest.v, <<114, 101, 113, 117, 101, 115, 116>>)
             = JStr(<<115, 101, 110, 100, 101, 114, 32, 100, 97, 116, 97>>)
        /\ DictGet(SentRequest.v, <<100, 97, 116, 97>>).t = "arr"
        /\ Len(SentData) = Len(metrics)
        /\ \A i \in 1..Len(metrics) :
              /\ SentData[i].t = "obj"
              /\ Len(SentData[i].items) = 5
              /\ SentHost(i) = JStr(metrics[i].host)
              /\ SentKey(i) = JStr(metrics[i].key)
              /\ SentValue(i).t = "str"
              /\ IsStringOf(SentValue(i).s, metrics[i].value)

\* Metric('h', 'k"', 'v', 5) then Metric('é', 'k', 42, 5, 7)
C12_Witness ==
    /\ pc = "socket"
    /\ Len(metrics) = 2
    /\ metrics[1].key = <<107, 34>>
    /\ metrics[2].host = <<233>> /\ metrics[2].value.t = "int"
    /\ SentKey(1) = JStr(<<107, 34>>)
    /\ SentHost(2) = JStr(<<233>>)
    /\ SentValue(2) = JStr(<<52, 50>>)

(***************************************************************************)
(* C13: an empty batch is not rejected: the call builds a well-formed      *)
(* envelope whose body has data: [] and performs the whole exchange        *)
(* (connect, send, read the header, read and inspect the body, close),     *)
(* and returns True when the server reports success.                       *)
(***************************************************************************)
\* The names of the socket operations started, in order
OpNames == [i \in 1..Len(ops) |-> ops[i].op]

\* b'ZBXD\1' + 35 as '<Q' + b'{"request":"sender data","data":[]}'
EmptyBatchPacket ==
    <<90, 66, 88, 68, 1, 35, 0, 0, 0, 0, 0, 0, 0,
      123, 34, 114, 101, 113, 117, 101, 115, 116, 34, 58,
      34, 115, 101, 110, 100, 101, 114, 32, 100, 97, 116, 97, 34, 44,
      34, 100, 97, 116, 97, 34, 58, 91, 93, 125>>

\* The exchange was performed in full
FullExchange ==
    /\ wire = packet
    /\ OpNames = <<"socket", "connect", "settimeout", "sendall", "recv", "recv", "close">>
    /\ {"resp_hdr", "resp_body_len", "resp_body"} \subseteq bound
    /\ ~sock.open

C13_EmptyBatchFullExchange ==
    metrics = <<>> =>
        /\ pc # "loop" => packet = EmptyBatchPacket
        /\ (Done /\ ~SocketRaised /\ WellFormedSuccess(reply))
           => FullExchange /\ result = "True"

\* C13 without its last clause: the envelope is built and the exchange is
\* performed in full, whatever the call then returns
C13_EmptyBatchIsSent ==
    metrics = <<>> =>
        /\ pc # "loop" => packet = EmptyBatchPacket
        /\ (Done /\ ~SocketRaised /\ WellFormedSuccess(reply)) => FullExchange

(***************************************************************************)
(* C14: the call never retries: at most one socket is created, at most one *)
(* connect is attempted and the packet is written at most once, whatever   *)
(* fails.                                                                  *)
(***************************************************************************)
C14_NoRetry ==
    /\ CountOps("socket") <= 1
    /\ CountOps("connect") <= 1
    /\ CountOps("sendall") <= 1
    /\ Len(wire) <= Len(packet)
    /\ wire = SubSeq(packet, 1, Len(wire))
    /\ Len(raised) <= 2
    /\ Done /\ raised # <<>> => result # "True"

\* The request was written, the read timed out, and nothing was tried again
C14_Witness ==
    /\ Done
    /\ raised = <<[op |-> "recv", e |-> "timeout"]>>
    /\ wire = packet
    /\ CountOps("connect") = 1
    /\ CountOps("sendall") = 1
    /\ OpNames = <<"socket", "connect", "settimeout", "sendall", "recv", "close">>

(***************************************************************************)
(* C15: concurrent calls of send_to_zabbix are independent under every     *)
(* interleaving.  Each call creates and closes its own connection and uses *)
(* its own buffers: the bytes it writes are those of its own packet, the   *)
(* bytes it reads are those of the reply on its own connection, its result *)
(* is the one these bytes give, as when it runs alone; its connection      *)
(* stays open until it closes it itself, and is closed once.               *)
(***************************************************************************)
\* What holds of the frame f of a call that runs alone
SoloOk(f) ==
    /\ f.pc # "loop"
       => /\ Len(f.metrics_data) = Len(f.metrics)
          /\ \A i \in 1..Len(f.metrics) :
                \E t \in WallClock \cup {0} :
                    f.metrics_data[i] = MetricData(f.metrics[i], t)
          /\ f.packet = Packet(DumpsRequest(f.metrics_data))
    /\ f.wire \in {<<>>, Take(f.packet, HeaderLen), f.packet}
    /\ f.buf = Take(f.reply.bytes, Len(f.buf))
    /\ "resp_hdr" \in f.bound => f.resp_hdr = Take(f.reply.bytes, HeaderLen)
    /\ "resp_body" \in f.bound
       => f.resp_body = SubSeq(f.reply.bytes, HeaderLen + 1,
                               HeaderLen + Len(f.resp_body))
    /\ f.inbox \in {<<>>, Drop(f.reply.bytes, Len(f.buf) + Len(f.resp_body))}
    /\ ("zabbix" \in f.bound /\ f.pc # "done") => f.sock.open
    /\ f.pc = "done" => ~f.sock.open
    /\ Cardinality({i \in 1..Len(f.ops) : f.ops[i].op = "close"})
         = (IF f.pc = "done" /\ "zabbix" \in f.bound THEN 1 ELSE 0)
    /\ Cardinality({i \in 1..Len(f.ops) : f.ops[i].op = "socket"})
         = (IF f.pc \in {"loop", "socket"} THEN 0 ELSE 1)
    /\ "resp" \in f.bound => f.resp = Loads(f.resp_body)
    /\ f.pc = "done"
       => f.result = (IF "zabbix" \notin f.bound THEN "raise"
                      ELSE IF /\ f.raised = <<>>
                              /\ "resp" \in f.bound
                              /\ IsSuccess(f.resp.v)
                      THEN "True" ELSE "False")

C15_ConcurrentCallsIndependent ==
    /\ cur \in {1, 2}
    /\ SoloOk(Frame)
    /\ SoloOk(other)

\* Both calls are reading their header at the same time, each on its own
\* connection, after each has written its own request
C15_Witness ==
    /\ pc = "recv_hdr" /\ other.pc = "recv_hdr"
    /\ wire = packet /\ other.wire = other.packet
    /\ packet # other.packet
    /\ reply # other.reply
    /\ Len(buf) = 3 /\ Len(other.buf) = 5

\* Both calls have ended, with different results
C15_BothDone ==
    /\ cur = 1
    /\ Done /\ other.pc = "done"
    /\ result = "True" /\ other.result = "False"
    /\ "resp_hdr" \in other.bound

\* A step of the running call leaves the frame of the other call as it is,
\* and a switch exchanges the two frames whole
C15_FrameKept ==
    [][IF cur' = cur THEN other' = other
       ELSE other' = Frame /\ Frame' = other]_vars

(***************************************************************************)
(* C16: when the call returns True, the body that was parsed has exactly   *)
(* the number of bytes declared in the length field of the response        *)
(* header: success is never reported on a body read short.                 *)
(***************************************************************************)
C16_SuccessOnlyOnWholeBody ==
    (Done /\ result = "True")
    => /\ Len(resp_body) = UnpackQ(SubSeq(resp_hdr, 6, 13))
       /\ resp_body_len = UnpackQ(SubSeq(resp_hdr, 6, 13))

(***************************************************************************)
(* C17: _recv_all(sock, count) tolerates partial reads.  Whatever the      *)
(* sizes of the chunks the transport delivers, the buffer is at every      *)
(* iteration the bytes the peer sent, in order and without gap, and what   *)
(* is returned is the first min(count, n) of the n bytes sent: count       *)
(* bytes unless the peer closed first.  No more than count bytes are       *)
(* consumed, so the bytes of the body are still unread after the header.   *)
(***************************************************************************)
C17_RecvAllExact ==
    /\ pc = "recv_hdr"
       => /\ Len(buf) < HeaderLen
          /\ buf = Take(reply.bytes, Len(buf))
          /\ inbox = Drop(reply.bytes, Len(buf))
    /\ "resp_hdr" \in bound
       => /\ resp_hdr = Take(reply.bytes, HeaderLen)
          /\ resp_hdr = buf
          /\ \/ Len(resp_hdr) = HeaderLen
             \/ reply.closes /\ Len(resp_hdr) = Len(reply.bytes)
    /\ pc \in {"check_hdr", "recv_body"}
       => inbox = Drop(reply.bytes, Len(resp_hdr))

\* The header of a whole reply was read and every byte of its body is
\* still to be read
C17_Witness ==
    /\ pc = "check_hdr"
    /\ reply.bytes = Envelope(BodySuccess)
    /\ resp_hdr = Take(reply.bytes, HeaderLen)
    /\ inbox = BodySuccess

\* _recv_all was left short of count because the peer closed
C17_ShortReturn ==
    /\ pc = "check_hdr"
    /\ Len(reply.bytes) = 7
    /\ resp_hdr = reply.bytes

\* _recv_all is in its loop after a partial read
C17_PartialRead ==
    /\ pc = "recv_hdr"
    /\ Len(buf) = 7
    /\ Len(inbox) > HeaderLen - 7

(***************************************************************************)
(* C18: within one call the socket operations occur in a fixed order:      *)
(* connect, the write of the complete request packet as one buffer, the    *)
(* read of the response header, the read of the response body with a       *)
(* requested size equal to the decoded length, close.  No read is issued   *)
(* before the whole request was written, no body read before a valid       *)
(* 13-byte header was received, and no socket operation follows close.     *)
(***************************************************************************)
FullOrder ==
    <<"socket", "connect", "settimeout", "sendall", "recv", "recv", "close">>

\* The operations before close: a prefix of the first six of FullOrder
OpenOps ==
    IF ops # <<>> /\ ops[Len(ops)].op = "close"
    THEN SubSeq(OpNames, 1, Len(ops) - 1) ELSE OpNames

C18_FixedOrder ==
    /\ Len(OpenOps) <= 6
    /\ OpenOps = SubSeq(FullOrder, 1, Len(OpenOps))
    /\ \A i \in 1..Len(ops) :
          /\ ops[i].op = "sendall" => ops[i].n = Len(packet) /\ packet # <<>>
          /\ ops[i].op = "recv" => wire = packet
          /\ ops[i].op = "close" => i = Len(ops) /\ i > 1 /\ pc = "done"
    /\ Len(ops) >= 5 /\ ops[5].op = "recv" => ops[5].n = HeaderLen
    /\ Len(ops) >= 6 /\ ops[6].op = "recv"
       => /\ Len(resp_hdr) = HeaderLen
          /\ StartsWith(resp_hdr, ZbxTag)
          /\ ops[6].n = UnpackQ(SubSeq(resp_hdr, 6, 13))
    /\ wire \in {<<>>, Take(packet, HeaderLen), packet}
    /\ (pc = "done" /\ "zabbix" \in bound) => ops[Len(ops)].op = "close"

\* A call that went through the whole exchange
C18_Witness ==
    /\ Done
    /\ OpNames = FullOrder
    /\ result = "True"
    /\ metrics # <<>>

(***************************************************************************)
(* C20: the failure kind of a call is reported by exactly one error-level  *)
(* log event.  A call that returns False has logged exactly one event of   *)
(* error severity, of the kind of its failure: the timeout event for a     *)
(* socket timeout, the error-with-context event for any other exception,   *)
(* the protocol-mismatch event for a bad header, the unsuccessful-response *)
(* event for a parsed response that does not say success.  A call that     *)
(* returns True has logged none.  The debug and the info event are logged  *)
(* only after a body was parsed, debug first, each at most once.           *)
(***************************************************************************)
TimeoutEvent == [level |-> "error", msg |-> "zabbix timeout"]
ExceptionEvent ==
    [level |-> "exception", msg |-> "Error while sending data to Zabbix"]
MismatchEvent == [level |-> "error", msg |-> "Wrong zabbix response"]
UnsuccessfulEvent == [level |-> "error", msg |-> "Got error from Zabbix"]

\* The event that matches the failure of a call that returned False
FailureEvent ==
    IF raised # <<>>
    THEN IF raised[1].e = "timeout" THEN TimeoutEvent ELSE ExceptionEvent
    ELSE IF "resp" \in bound THEN UnsuccessfulEvent
    ELSE MismatchEvent

LowEvents == SelectSeq(log, LAMBDA ev : ev.level \in {"debug", "info"})

C20_OneErrorEventPerFailure ==
    /\ (Done /\ result = "False")
       => /\ ErrorEvents = <<FailureEvent>>
          /\ Len(raised) <= 1
          /\ (raised = <<>> /\ "resp" \in bound)
             => resp.ok /\ resp.v.t = "obj" /\ ~IsSuccess(resp.v)
          /\ (raised = <<>> /\ "resp" \notin bound)
             => /\ "resp_hdr" \in bound /\ "resp_body" \notin bound
                /\ ~(StartsWith(resp_hdr, ZbxTag) /\ Len(resp_hdr) = HeaderLen)
    /\ (Done /\ result = "True") => ErrorEvents = <<>> /\ raised = <<>>
    /\ LowEvents # <<>>
       => /\ "resp" \in bound /\ resp.ok /\ resp = Loads(resp_body)
          /\ LowEvents \in {<<DebugEvent>>, <<DebugEvent, InfoEvent>>}
          /\ log[1] = DebugEvent
    /\ \A i \in 1..Len(log) :
          log[i].level \in {"debug", "info", "error", "exception"}

\* A call that failed on an unsuccessful response, after the debug and the
\* info event
C20_Witness ==
    /\ Done
    /\ result = "False"
    /\ log = <<DebugEvent, InfoEvent, UnsuccessfulEvent>>

\* The other three kinds of failure are reached as well
C20_TimeoutKind == Done /\ result = "False" /\ log = <<TimeoutEvent>>
C20_ExceptionKind ==
    Done /\ result = "False" /\ log = <<DebugEvent, ExceptionEvent>>
C20_MismatchKind == Done /\ result = "False" /\ log = <<MismatchEvent>>

(***************************************************************************)
(* C19: every call of send_to_zabbix terminates with a boolean result,     *)
(* provided each blocking socket operation eventually delivers at least    *)
(* one byte, reports that the peer closed, or raises.  The loop of         *)
(* _recv_all cannot run forever: each iteration strictly lengthens the     *)
(* buffer towards count, or returns.                                       *)
(***************************************************************************)
\* The steps the call has still to make, at most: the statements after the
\* current one, the metrics not yet serialized and the bytes of the header
\* not yet read
Rank ==
    CASE pc = "loop"       -> 10 + HeaderLen + (Len(metrics) - Len(metrics_data))
      [] pc = "socket"     -> 9 + HeaderLen
      [] pc = "connect"    -> 8 + HeaderLen
      [] pc = "settimeout" -> 7 + HeaderLen
      [] pc = "sendall"    -> 6 + HeaderLen
      [] pc = "recv_hdr"   -> 5 + (HeaderLen - Len(buf))
      [] pc = "check_hdr"  -> 4
      [] pc = "recv_body"  -> 3
      [] pc = "parse"      -> 2
      [] pc = "finally"    -> 1
      [] pc = "done"       -> 0

C19_EndsWithBoolean ==
    /\ Rank \in 0..(10 + HeaderLen + MaxBatch + 1)
    /\ Rank = 0 => result \in {"True", "False"}

\* The part of C19 that holds.  Every step of the call lowers Rank, which
\* is never negative, so that no call makes more than Rank steps ...
C19_RankDecreases == [][Rank' < Rank]_vars

\* ... an iteration that stays in the loop of _recv_all has lengthened the
\* buffer, still short of count ...
C19_LoopProgress ==
    [][(pc = "recv_hdr" /\ pc' = "recv_hdr")
       => Len(buf) < Len(buf') /\ Len(buf') < HeaderLen]_vars

\* ... and a call that has not ended can make a step: a socket operation
\* that has nothing to deliver raises the timeout.
C19_NeverBlocked ==
    /\ pc \notin {"loop", "parse", "done"} => ENABLED Next
    /\ pc = "loop" => Len(metrics_data) <= Len(metrics)
    /\ pc = "recv_hdr" => RecvRaises(RecvSize(HeaderLen, Len(buf))) # {}
    /\ pc = "recv_body" => RecvRaises(resp_body_len) # {}

====
